---- MODULE Spec2Model ----
(***************************************************************************)
(* The AR target-shooting game: App (session state, displayed score) and   *)
(* the three ARGame implementations found in the sources:                  *)
(*   V1  src/unnamed/part_001            (rAF loop, latestLandmarksRef)    *)
(*   V2  src/components/ARGame.tsx 1-428 (simulation inside onResults)     *)
(*   V3  src/components/ARGame.tsx 429-1088 (rAF loop, manual hands.send)  *)
(*                                                                         *)
(* Units.  Landmark coordinates are in thousandths of the image (0..1000). *)
(* World coordinates are whole world units.  Ray directions are held as    *)
(* integer numerators over 5 (a unit direction d is the triple 5*d), and   *)
(* squared distances to a ray as numerators over 625.                      *)
(*                                                                         *)
(* Time.  Date.now() is read once per frame.  Timestamps are kept on a     *)
(* sliding clock: at the start of a frame the previous frame's reading is  *)
(* 0, the current reading is the elapsed d, and after the frame every      *)
(* stored timestamp is moved back by d and clamped at -Horizon.  Horizon   *)
(* exceeds every cooldown, so the clamp never changes a comparison.        *)
(***************************************************************************)
EXTENDS Integers, Sequences, FiniteSets, TLC

VARIABLES
  variant,             \* which ARGame implementation is mounted
  gameState,           \* App: useState<GameState>
  score,               \* App: useState(0)
  scoreRef,            \* ARGame: scoreRef.current
  isTriggeredRef,      \* ARGame: isTriggeredRef.current
  lastShotTimeRef,     \* ARGame: lastShotTimeRef.current (sliding clock)
  latestLandmarksRef,  \* ARGame (V1, V3): latestLandmarksRef.current
  targetsRef,          \* ARGame: targetsRef.current, in array order
  nextId,              \* identity of the next THREE object created by spawnTarget
  tick,                \* what the last frame did (its locals and emitted events)
  hist,                \* what the environment did over the past frames
  rafScheduled,        \* ARGame (V1, V3): requestAnimationFrame(loop) is pending
  processingRef,       \* ARGame (V3): processingRef.current
  sends,               \* ARGame (V3): hands.send promises not yet settled
  delivered,           \* ARGame (V3): of those, the ones whose results arrived
  floatingTexts,       \* ARGame: the floatingTexts state (the list on screen)
  timers,              \* ARGame: pending setTimeout callbacks of addFloatingText
  staleLoops,          \* ARGame (V1, V3): the gameState seen by each loop of an
                       \* earlier effect run that still has a frame requested
  handsRef             \* ARGame (V3): handsRef.current, "null" until
                       \* startSystem, then an "open" or a "closed" estimator

vars == <<variant, gameState, score, scoreRef, isTriggeredRef, lastShotTimeRef,
          latestLandmarksRef, targetsRef, nextId, tick, hist, rafScheduled,
          processingRef, sends, delivered, floatingTexts, timers,
          staleLoops, handsRef>>

\* the on-screen feedback and its timers
feedback == <<floatingTexts, timers>>

\* the state of the V3 inference requests
estimator == <<processingRef, sends, delivered>>

-----------------------------------------------------------------------------
(* Bounds of the model *)

Horizon == 300
MaxSpawn == 5
GestureSpawn == 1
SignalSpawn == 2
TextSpawn == 2
RunCap == 3
MaxSends == 2
MaxLoops == 2
NoHandTicks == 10
Far == 1000
MaxDepth == 30

TickMs == {50, 300}          \* Date.now() advance between two frames
SlowTickMs == {300}          \* frames further apart than any cooldown
DtSet == {1, 2}              \* clock.getDelta() of a frame, in seconds
IndexTipXs == {0, 500}       \* index fingertip x
PinchDistances == {50, 150}  \* |thumbTip - indexMCP|

-----------------------------------------------------------------------------
(* Program constants *)

MENU == 0
PLAYING == 1
GAME_OVER == 2

V1 == "part_001"
V2 == "ARGame_onResults"
V3 == "ARGame_loop"
Variants == {V1, V2, V3}

MaxTargets == 4
Expiry == 800                \* setTimeout(..., 800) of addFloatingText

TriggerThreshold(v) == CASE v = V1 -> 80 [] v = V2 -> 60 [] v = V3 -> 120

Cooldown(v) == CASE v = V1 -> 250 [] v = V2 -> 200 [] v = V3 -> 120

MissDepth(v) == CASE v = V1 -> 8 [] v = V2 -> 5 [] v = V3 -> 5

\* twice the squared magnetism threshold (3.0, 2.5, 3.0)
MagnetismTwice(v) == CASE v = V1 -> 6 [] v = V2 -> 5 [] v = V3 -> 6

CameraPosition == <<0, 0, 10>>

-----------------------------------------------------------------------------
(* Vectors *)

Max(a, b) == IF a > b THEN a ELSE b
Min(a, b) == IF a < b THEN a ELSE b
Abs(a) == IF a < 0 THEN -a ELSE a

VAdd(a, b) == <<a[1] + b[1], a[2] + b[2], a[3] + b[3]>>
VSub(a, b) == <<a[1] - b[1], a[2] - b[2], a[3] - b[3]>>
VScale(a, k) == <<a[1] * k, a[2] * k, a[3] * k>>
Dot(a, b) == a[1] * b[1] + a[2] * b[2] + a[3] * b[3]

DistFar == Far * Far
Infinity == DistFar + 1

\* |a|^2, saturating at DistFar
LengthSq(a) ==
  IF Abs(a[1]) >= Far \/ Abs(a[2]) >= Far \/ Abs(a[3]) >= Far
  THEN DistFar
  ELSE Min(Dot(a, a), DistFar)

-----------------------------------------------------------------------------
(* Landmark frames *)

\* present: multiHandLandmarks holds a hand; complete: the hand's array holds
\* the points the frame reads (landmarks[4], [5] and [8])
NoHand == [present |-> FALSE, complete |-> FALSE, indexTip |-> <<0, 0>>,
           indexMCP |-> <<0, 0>>, thumbTip |-> <<0, 0>>]

\* a hand whose array is too short to hold landmarks[8]
Malformed == [present |-> TRUE, complete |-> FALSE, indexTip |-> <<0, 0>>,
              indexMCP |-> <<0, 0>>, thumbTip |-> <<0, 0>>]

Landmarks(tipX, pinch) ==
  [present |-> TRUE, complete |-> TRUE,
   indexTip |-> <<tipX, 500>>,
   indexMCP |-> <<500, 600>>,
   thumbTip |-> <<500 + (3 * pinch) \div 5, 600 + (4 * pinch) \div 5>>]

HandFrames == {Landmarks(x, p) : x \in IndexTipXs, p \in PinchDistances}
Results == HandFrames \cup {NoHand}

-----------------------------------------------------------------------------
(* Aim resolver: fingertip -> NDC -> ray -> magnetic lock *)

\* ndcX, ndcY of the index fingertip, in thousandths
Ndc(v, indexTip) ==
  <<IF v = V3 THEN -((1000 - indexTip[1]) * 2) + 1000
               ELSE (1000 - indexTip[1]) * 2 - 1000,
    -(indexTip[2] * 2 - 1000)>>

\* raycaster.setFromCamera for the PerspectiveCamera(60, aspect) at (0,0,10)
\* looking down -z: the ray leaves the camera through (ndcX*tan(30)*aspect,
\* ndcY*tan(30), -1).  The window is taken with tan(30)*aspect = 3/4 and the
\* fingertip at mid height, which makes the three directions below exact.
setFromCamera(ndc) ==
  [origin |-> CameraPosition,
   direction |-> IF ndc[1] = 0 THEN <<0, 0, -5>>
                 ELSE IF ndc[1] > 0 THEN <<3, 0, -4>>
                 ELSE <<-3, 0, -4>>]

\* The ray as the distance loop reads it.  V3 builds the free aim point first
\* with ray.direction.multiplyScalar(50), which scales the ray's own direction
\* vector in place; V1 and V2 scale it only after the loop.
RayAtScan(v, ray) ==
  IF v = V3 THEN [ray EXCEPT !.direction = VScale(@, 50)] ELSE ray

\* THREE.Ray.distanceSqToPoint: the distance from point to
\* origin + direction * ((point - origin) . direction), or to the origin when
\* that projection is negative.  Result over 625, saturating at DistFar.
distanceSqToPoint(ray, point) ==
  LET w == VSub(point, ray.origin)
      directionDistance5 == Dot(w, ray.direction)
  IN  IF directionDistance5 < 0
      THEN Min(625 * LengthSq(w), DistFar)
      ELSE LengthSq(VSub(VScale(w, 25), VScale(ray.direction, directionDistance5)))

BelowMagnetism(v, dist) == 2 * dist < 625 * MagnetismTwice(v)

\* let closestDist = Infinity (V1, V2); let minDist = 3.0 (V3)
InitialClosestDist(v) ==
  IF v = V3 THEN (625 * MagnetismTwice(v)) \div 2 ELSE Infinity

\* targetsRef.current.forEach(target => { if (dist < closestDist && dist <
\* magnetismThreshold) { closestDist = dist; closestTarget = target } })
RECURSIVE AimScan(_, _, _, _, _, _)
AimScan(v, ray, targets, i, closestDist, closestTarget) ==
  IF i > Len(targets)
  THEN [closestTarget |-> closestTarget, closestDist |-> closestDist]
  ELSE LET dist == distanceSqToPoint(ray, targets[i].position)
       IN  IF dist < closestDist /\ BelowMagnetism(v, dist)
           THEN AimScan(v, ray, targets, i + 1, dist, targets[i].id)
           ELSE AimScan(v, ray, targets, i + 1, closestDist, closestTarget)

NoTarget == 0

AimAssist(v, ray, targets) ==
  AimScan(v, ray, targets, 1, InitialClosestDist(v), NoTarget)

-----------------------------------------------------------------------------
(* Target population *)

\* Draws of spawnTarget's Math.random() calls, as (position, velocity) pairs.
\* V1: x = 18 cos(angle), y in [-5,5], z = -20, heading for (0,0,5) at 3..5.
\* V2: (15 cos, 9 sin, -15), heading for (0,0,-5) at 2..4.
\* V3: (25 sin(angle), y in [-6,6], z in [-30,-25)), velocity
\*     speed * (-sin(angle), 0, cos(angle)), speed in [5,9).
\* Velocities are rounded to whole units per second.
SpawnSamples(v) ==
  CASE v = V1 -> {[position |-> <<0, 0, -20>>, velocity |-> <<0, 0, 5>>],
                  [position |-> <<0, 1, -20>>, velocity |-> <<0, 0, 5>>]}
    [] v = V2 -> {[position |-> <<0, 9, -15>>, velocity |-> <<0, -2, 2>>],
                  [position |-> <<0, -9, -15>>, velocity |-> <<0, 2, 2>>]}
    [] v = V3 -> {[position |-> <<0, 0, -28>>, velocity |-> <<0, 0, 8>>],
                  [position |-> <<0, 1, -28>>, velocity |-> <<0, 0, 8>>]}

\* V3 with angle = pi - atan(4/3) (about 127 degrees, inside +-135) and speed
\* 5: position (sin(angle) * 25, 0, -28), velocity (0,0,1) turned by -angle
\* about y, which is (-sin(angle), 0, cos(angle)) * 5
RecedingSample == [position |-> <<20, 0, -28>>, velocity |-> <<-4, 0, -3>>]

\* the draw that starts on the camera axis (V1, V3) or above it (V2)
AxisSample(v) ==
  CHOOSE s \in SpawnSamples(v) : s.position[2] >= 0 /\ s.position[2] # 1

\* the object spawnTarget pushes
NewTarget(id, sample) ==
  [id |-> id, position |-> sample.position, velocity |-> sample.velocity,
   active |-> TRUE]

\* spawnTarget, once per element of samples: targetsRef.current.push(group)
RECURSIVE spawnTarget(_, _, _)
spawnTarget(targets, id, samples) ==
  IF samples = <<>> THEN targets
  ELSE spawnTarget(Append(targets, NewTarget(id, Head(samples))), id + 1,
                   Tail(samples))

\* a guard that still spawns at the cap (variation used to test C10)
SpawnAllowed_atCap(count) == count <= MaxTargets

\* the guard in front of spawnTarget
SpawnAllowed(count) == count < MaxTargets

\* How many spawnTarget calls a frame may make with count targets alive:
\* V2 loops while (length < 4); V1 and V3 make at most one, on a random draw.
SpawnCounts(v, count) ==
  IF v = V2
  THEN {IF SpawnAllowed(count) THEN MaxTargets - count ELSE 0}
  ELSE IF SpawnAllowed(count) THEN {0, 1} ELSE {0}

\* a splice one index too low (variation used to test C14)
Splice_wrongIndex(targets, i) ==
  [j \in 1..(Len(targets) - 1) |->
     IF j < i - 1 THEN targets[j] ELSE targets[j + 1]]

\* a retirement that leaves the target in the array (variation used to test
\* C28)
Splice_none(targets, i) == targets

\* targetsRef.current.splice(i, 1)
Splice(targets, i) ==
  [j \in 1..(Len(targets) - 1) |-> IF j < i THEN targets[j] ELSE targets[j + 1]]

\* a floating text that is never shown (variation used to test C11)
addFloatingText_silent(texts, type, target) == texts

\* addFloatingText(x, y, text, type): the event raised for target (its screen
\* coordinates, the projection of target.position, are not kept)
addFloatingText(texts, type, target) ==
  Append(texts, [type |-> type, id |-> target.id])

\* a target deeper than MaxDepth that is not coming closer only gets further
\* from the miss depth; its position is no longer followed
OutOfPlay(target) == target.position[3] < -MaxDepth /\ target.velocity[3] <= 0

\* for (let i = length - 1; i >= 0; i--): move, then retire past the depth
RECURSIVE UpdateLoop(_, _, _, _, _, _)
UpdateLoop(targets, i, dt, depth, missed, texts) ==
  IF i < 1 THEN [targets |-> targets, missed |-> missed, texts |-> texts]
  ELSE LET target == targets[i]
           moved == IF OutOfPlay(target) THEN target
                    ELSE [target EXCEPT
                            !.position = VAdd(@, VScale(target.velocity, dt))]
       IN  IF ~target.active
           THEN UpdateLoop(targets, i - 1, dt, depth, missed, texts)
           ELSE IF moved.position[3] > depth
           THEN UpdateLoop(Splice(targets, i), i - 1, dt, depth,
                           Append(missed, moved.id),
                           addFloatingText(texts, "miss", moved))
           ELSE UpdateLoop([targets EXCEPT ![i] = moved], i - 1, dt, depth,
                           missed, texts)

UpdateTargets(v, targets, dt) ==
  UpdateLoop(targets, Len(targets), dt, MissDepth(v), <<>>, <<>>)

\* an aim-assist walking the array as it was before the update loop
\* (variation used to test C9)
ScanPopulation_stale(spawned, updated) == spawned

\* the array the aim-assist forEach walks: targetsRef.current after the update
ScanPopulation(spawned, updated) == updated

\* a filter that keeps every target (variation used to test C12)
RemoveTarget_keepsAll(targets, id) == targets

\* targetsRef.current.filter(t => t !== closestTarget)
RemoveTarget(targets, id) == SelectSeq(targets, LAMBDA t : t.id # id)

Ids(targets) == {targets[i].id : i \in 1..Len(targets)}

-----------------------------------------------------------------------------
(* Gesture trigger *)

\* Math.hypot(thumbTip.x - indexMCP.x, thumbTip.y - indexMCP.y), squared
TriggerDistSq(landmarks) ==
  (landmarks.thumbTip[1] - landmarks.indexMCP[1]) *
    (landmarks.thumbTip[1] - landmarks.indexMCP[1]) +
  (landmarks.thumbTip[2] - landmarks.indexMCP[2]) *
    (landmarks.thumbTip[2] - landmarks.indexMCP[2])

\* triggerDist < triggerThreshold
Engaged(v, landmarks) ==
  TriggerDistSq(landmarks) < TriggerThreshold(v) * TriggerThreshold(v)

\* a trigger without the rate limit (variation used to test C2)
CooldownElapsed_never(v, now, lastShotTime) == TRUE

\* now - lastShotTimeRef.current > cooldown
CooldownElapsed(v, now, lastShotTime) == now - lastShotTime > Cooldown(v)

\* a trigger that forgets to latch (variation used to test C1)
Latch_forgotten(isTriggered) == isTriggered

\* isTriggeredRef.current after a frame whose pinch is engaged
Latch(isTriggered) == TRUE

\* a suppressed edge that leaves the trigger armed (variation used to test
\* C27)
Suppressed_unlatched(isTriggered, lastShotTime) ==
  [isShooting |-> FALSE, lastShotTime |-> lastShotTime,
   isTriggered |-> isTriggered]

\* a pinch edge inside the cooldown: the inner if is skipped, and
\* isTriggeredRef.current = true still runs
Suppressed(isTriggered, lastShotTime) ==
  [isShooting |-> FALSE, lastShotTime |-> lastShotTime,
   isTriggered |-> Latch(isTriggered)]

\* The trigger block of a frame with a hand.
TriggerLogic(v, landmarks, now, isTriggered, lastShotTime) ==
  IF Engaged(v, landmarks)
  THEN IF ~isTriggered
       THEN IF CooldownElapsed(v, now, lastShotTime)
            THEN [isShooting |-> TRUE, lastShotTime |-> now,
                  isTriggered |-> Latch(isTriggered)]
            ELSE Suppressed(isTriggered, lastShotTime)
       ELSE [isShooting |-> FALSE, lastShotTime |-> lastShotTime,
             isTriggered |-> isTriggered]
  ELSE [isShooting |-> FALSE, lastShotTime |-> lastShotTime,
        isTriggered |-> FALSE]

\* The else branch of "if (landmarks)": it hides the reticle and clears the
\* laser, and writes neither isTriggeredRef nor lastShotTimeRef.
NoHandBranch(isTriggered, lastShotTime) ==
  [isShooting |-> FALSE, lastShotTime |-> lastShotTime,
   isTriggered |-> isTriggered]

\* timestamps after a frame that took d ms
Slide(t, d) == Max(t - d, -Horizon)

-----------------------------------------------------------------------------
(* Combat adjudicator *)

\* the frame's adjudication when nothing is fired
NoShot(targets, scoreRefNow) ==
  [targets |-> targets, scoreRef |-> scoreRefNow, reported |-> FALSE,
   sounds |-> <<>>, texts |-> <<>>]

\* generateSound('shoot') with no closestTarget
ShotOnly(targets, scoreRefNow) ==
  [targets |-> targets, scoreRef |-> scoreRefNow, reported |-> FALSE,
   sounds |-> <<"shoot">>, texts |-> <<>>]

\* the body of if (closestTarget)
Hit(targets, scoreRefNow, closestTarget) ==
  [targets |-> RemoveTarget(targets, closestTarget),
   scoreRef |-> scoreRefNow + 1, reported |-> TRUE,
   sounds |-> <<"shoot", "hit">>,
   texts |-> addFloatingText(<<>>, "hit", [id |-> closestTarget])]

\* an adjudicator that scores every fire event (variation used to test C7)
Shoot_scoresMisses(targets, scoreRefNow, isShooting, closestTarget) ==
  IF isShooting
  THEN Hit(targets, scoreRefNow, closestTarget)
  ELSE NoShot(targets, scoreRefNow)

\* an adjudicator that raises a miss text for a fire event without a lock
\* (variation used to test C13)
Shoot_missText(targets, scoreRefNow, isShooting, closestTarget) ==
  IF ~isShooting THEN NoShot(targets, scoreRefNow)
  ELSE IF closestTarget # NoTarget
  THEN Hit(targets, scoreRefNow, closestTarget)
  ELSE [ShotOnly(targets, scoreRefNow) EXCEPT
          !.texts = addFloatingText(<<>>, "miss", [id |-> NoTarget])]

\* if (isShooting) { generateSound('shoot'); if (closestTarget) { remove it;
\* scoreRef.current += 1; onScoreUpdate(scoreRef.current);
\* generateSound('hit'); addFloatingText(...hit) } }
Shoot(targets, scoreRefNow, isShooting, closestTarget) ==
  IF ~isShooting THEN NoShot(targets, scoreRefNow)
  ELSE IF closestTarget # NoTarget
  THEN Hit(targets, scoreRefNow, closestTarget)
  ELSE ShotOnly(targets, scoreRefNow)

\* an adjudicator acting on the lock of the previous frame (variation used
\* to test C18)
LockForShot_previous(previous, current) == previous

\* the closestTarget the adjudicator reads: the local of this frame
LockForShot(previous, current) == current

-----------------------------------------------------------------------------
(* One frame of the simulation while gameState === 1 *)

NoRay == [origin |-> CameraPosition, direction |-> <<0, 0, 0>>]

IdleTick ==
  [playing |-> FALSE, hand |-> FALSE, engaged |-> FALSE, coolOK |-> FALSE,
   wasTriggered |-> FALSE, isShooting |-> FALSE, reported |-> FALSE,
   closestTarget |-> NoTarget, closestDist |-> Infinity,
   ray |-> NoRay, unitDirection |-> <<0, 0, 0>>, before |-> {},
   scanned |-> <<>>, missed |-> <<>>, spawned |-> 0, scoreBefore |-> 0,
   dt |-> 0, landmarks |-> NoHand, missTexts |-> <<>>, shotTexts |-> <<>>, sounds |-> <<>>,
   threw |-> FALSE, reticle |-> "untouched",
   edge |-> FALSE, edgeGap |-> 0, prevEdgeFired |-> FALSE, fireGap |-> 0,
   reappear |-> FALSE]

InitHist ==
  [released |-> FALSE, engRun |-> 0, runCool |-> FALSE, runFires |-> 0,
   noHandRun |-> 0, lastHandEngaged |-> FALSE,
   fireAge |-> Horizon, edgeAge |-> Horizon, edgeFired |-> FALSE]

B2N(b) == IF b THEN 1 ELSE 0

\* What one exploration lets the environment do: the spawner's budget and
\* draws, the landmark frames MediaPipe may deliver, and whether the gesture
\* history is recorded.
PopulationRun ==
  [spawn |-> [v \in Variants |-> MaxSpawn],
   samples |-> [v \in Variants |-> SpawnSamples(v)],
   results |-> Results,
   tickMs |-> SlowTickMs,
   track |-> FALSE, floating |-> FALSE]

CentredResults == {NoHand} \cup {Landmarks(500, p) : p \in PinchDistances}

\* V2 refills to MaxTargets in its first frame, so its budget starts there
GestureRun ==
  [spawn |-> [v \in Variants |->
                IF v = V2 THEN MaxTargets + GestureSpawn - 1 ELSE GestureSpawn],
   samples |-> [v \in Variants |-> {AxisSample(v)}],
   results |-> CentredResults,
   tickMs |-> TickMs,
   track |-> TRUE, floating |-> FALSE]

SignalRun ==
  [spawn |-> [v \in Variants |->
                IF v = V2 THEN MaxTargets + SignalSpawn - 1 ELSE SignalSpawn],
   samples |-> [v \in Variants |-> {AxisSample(v)}],
   results |-> CentredResults,
   tickMs |-> TickMs,
   track |-> FALSE, floating |-> FALSE]

\* the floating-text list and its timers are followed, with the game-over
\* signal raised from outside
TextRun ==
  [spawn |-> [v \in Variants |->
                IF v = V2 THEN MaxTargets + TextSpawn - 1 ELSE TextSpawn],
   samples |-> [v \in Variants |-> {AxisSample(v)}],
   results |-> CentredResults,
   tickMs |-> SlowTickMs,
   track |-> FALSE, floating |-> TRUE]

\* the spawner of V3 also draws an angle beyond a right angle
RecedingRun ==
  [spawn |-> [v \in Variants |-> MaxTargets],
   samples |-> [v \in Variants |->
                  IF v = V3 THEN {AxisSample(v), RecedingSample}
                  ELSE {AxisSample(v)}],
   results |-> CentredResults,
   tickMs |-> SlowTickMs,
   track |-> FALSE, floating |-> FALSE]

\* the estimator also delivers a hand whose array is too short
MalformedRun ==
  [spawn |-> [v \in Variants |->
                IF v = V2 THEN MaxTargets + SignalSpawn - 1 ELSE SignalSpawn],
   samples |-> [v \in Variants |-> {AxisSample(v)}],
   results |-> CentredResults \cup {Malformed},
   tickMs |-> SlowTickMs,
   track |-> FALSE, floating |-> FALSE]

\* const indexTip = landmarks[8]; ... indexTip.x: reading x of undefined throws
\* a TypeError; no variant catches it inside the frame
Throws(landmarks) == landmarks.present /\ ~landmarks.complete

\* what the trigger refs hold when the frame is left at the throw
Aborted(isTriggered, lastShotTime) ==
  [isShooting |-> FALSE, isTriggered |-> isTriggered,
   lastShotTime |-> lastShotTime]

\* The body of "if (gameState === 1)" in loop (V1, V3) and of onResults after
\* its guard (V2): spawn, update, aim, trigger, shoot.  d is the Date.now()
\* advance since the previous frame, dt the clock delta, samples the spawner's
\* random draws of this frame.
\* When the landmarks throw, the frame is left after the update loop: no aim,
\* no trigger, no shot, no render, and the loop does not ask for a new frame.
Frame(v, landmarks, d, dt, samples, track) ==
  LET now == d
      spawned == spawnTarget(targetsRef, nextId, samples)
      upd == UpdateTargets(v, spawned, dt)
      hand == landmarks.present
      threw == Throws(landmarks)
      camRay == setFromCamera(Ndc(v, landmarks.indexTip))
      ray == RayAtScan(v, camRay)
      scanned == ScanPopulation(spawned, upd.targets)
      aim == IF hand /\ ~threw THEN AimAssist(v, ray, scanned)
             ELSE [closestTarget |-> NoTarget, closestDist |-> Infinity]
      trig == IF threw THEN Aborted(isTriggeredRef, lastShotTimeRef)
              ELSE IF hand
              THEN TriggerLogic(v, landmarks, now, isTriggeredRef, lastShotTimeRef)
              ELSE NoHandBranch(isTriggeredRef, lastShotTimeRef)
      shot == Shoot(upd.targets, scoreRef, trig.isShooting,
                    LockForShot(tick.closestTarget, aim.closestTarget))
      engaged == hand /\ ~threw /\ Engaged(v, landmarks)
      edge == track /\ engaged /\ ~hist.lastHandEngaged
      inRun == engaged /\ (hist.released \/ hist.engRun >= 1)
  IN  [targets |-> shot.targets,
       scoreRef |-> shot.scoreRef,
       isTriggered |-> trig.isTriggered,
       lastShotTime |-> Slide(trig.lastShotTime, d),
       nextId |-> nextId + Len(samples),
       tick |->
         [playing |-> TRUE, hand |-> hand, engaged |-> engaged,
          coolOK |-> CooldownElapsed(v, now, lastShotTimeRef),
          wasTriggered |-> isTriggeredRef,
          isShooting |-> trig.isShooting, reported |-> shot.reported,
          closestTarget |-> aim.closestTarget, closestDist |-> aim.closestDist,
          ray |-> IF hand /\ ~threw THEN ray ELSE NoRay,
          unitDirection |-> IF hand /\ ~threw THEN camRay.direction
                            ELSE <<0, 0, 0>>,
          threw |-> threw,
          reticle |-> IF threw THEN "untouched"
                      ELSE IF hand THEN "shown" ELSE "hidden",
          before |-> Ids(targetsRef),
          scanned |-> upd.targets,
          missed |-> upd.missed, spawned |-> Len(samples),
          dt |-> dt, landmarks |-> landmarks,
          missTexts |-> upd.texts, shotTexts |-> shot.texts,
          sounds |-> shot.sounds,
          scoreBefore |-> scoreRef,
          edge |-> edge,
          edgeGap |-> IF edge THEN hist.edgeAge + d ELSE 0,
          prevEdgeFired |-> edge /\ hist.edgeFired,
          fireGap |-> IF track /\ trig.isShooting THEN hist.fireAge + d ELSE 0,
          reappear |-> track /\ engaged /\ hist.noHandRun >= NoHandTicks],
       hist |->
         IF ~track THEN hist
         ELSE
         [released |-> hand /\ ~engaged,
          engRun |-> IF ~inRun THEN 0
                     ELSE IF hist.released THEN 1
                     ELSE Min(hist.engRun + 1, RunCap),
          runCool |-> IF ~inRun THEN FALSE
                      ELSE IF hist.released
                      THEN CooldownElapsed(v, now, lastShotTimeRef)
                      ELSE hist.runCool,
          runFires |-> IF ~inRun THEN 0
                       ELSE IF hist.released THEN B2N(trig.isShooting)
                       ELSE Min(hist.runFires + B2N(trig.isShooting), 2),
          noHandRun |-> IF hand THEN 0 ELSE Min(hist.noHandRun + 1, NoHandTicks),
          lastHandEngaged |-> IF hand THEN engaged ELSE hist.lastHandEngaged,
          fireAge |-> IF trig.isShooting THEN 0
                      ELSE Min(hist.fireAge + d, Horizon),
          edgeAge |-> IF edge THEN 0 ELSE Min(hist.edgeAge + d, Horizon),
          edgeFired |-> IF edge THEN trig.isShooting ELSE hist.edgeFired]]

\* setFloatingTexts(prev => [...prev, {id, ...}]) for each event of the frame;
\* the entry's key (Date.now() + Math.random()) is taken as the target's id
ShowTexts(list, events) == list \o events

\* setTimeout(() => ..., 800) for each event of the frame
StartTimers(pending, events) ==
  pending \cup {[id |-> events[i].id, age |-> 0] : i \in 1..Len(events)}

\* the time since each timer was started, as far as it matters
AgeTimers(pending, d) ==
  {[id |-> t.id, age |-> Min(t.age + d, Expiry)] : t \in pending}

\* the frame's writes
Playing(b, v, landmarks, d, dt) ==
  \E n \in SpawnCounts(v, Len(targetsRef)) :
    /\ nextId + n <= b.spawn[v] + 1
    /\ \E samples \in [1..n -> b.samples[v]] :
         \E f \in {Frame(v, landmarks, d, dt, samples, b.track)} :
             /\ targetsRef' = f.targets
             /\ scoreRef' = f.scoreRef
             /\ score' = IF f.tick.reported THEN f.scoreRef ELSE score
             /\ isTriggeredRef' = f.isTriggered
             /\ lastShotTimeRef' = f.lastShotTime
             /\ nextId' = f.nextId
             /\ tick' = f.tick
             /\ hist' = f.hist
             /\ \E events \in {IF b.floating
                                THEN f.tick.missTexts \o f.tick.shotTexts
                                ELSE <<>>} :
                  /\ floatingTexts' = ShowTexts(floatingTexts, events)
                  /\ timers' = StartTimers(AgeTimers(timers, d), events)

\* a frame that keeps advancing the targets outside Playing (variation used
\* to test C15)
Paused_simulates(b, d) ==
  /\ lastShotTimeRef' = Slide(lastShotTimeRef, d)
  /\ tick' = IdleTick
  /\ hist' = hist
  /\ targetsRef' = UpdateTargets(variant, targetsRef, 1).targets
  /\ timers' = AgeTimers(timers, d)
  /\ UNCHANGED <<scoreRef, score, isTriggeredRef, nextId, floatingTexts>>

\* a frame outside Playing only renders; time passes
Paused(b, d) ==
  /\ lastShotTimeRef' = Slide(lastShotTimeRef, d)
  /\ tick' = IdleTick
  /\ hist' = IF b.track
             THEN [hist EXCEPT !.fireAge = Min(@ + d, Horizon),
                               !.edgeAge = Min(@ + d, Horizon)]
             ELSE hist
  /\ timers' = AgeTimers(timers, d)
  /\ UNCHANGED <<targetsRef, scoreRef, score, isTriggeredRef, nextId,
                 floatingTexts>>

-----------------------------------------------------------------------------
(* App *)

\* a cleanup that clears the pending timers (variation used to test C21)
TimersAfterCleanup_cleared(pending) == {}

\* the effect's cleanup does not touch the timers of addFloatingText
TimersAfterCleanup(pending) == pending

\* a cleanup that leaves the requested frame in place (variation used to
\* test C22)
cancelAnimationFrame_forgotten(stale, pending, captured) ==
  IF pending /\ Len(stale) < MaxLoops THEN Append(stale, captured) ELSE stale

\* cancelAnimationFrame(animationFrameId) in the cleanup: animationFrameId is
\* the request made last by the loop of this effect run, so that loop holds no
\* request afterwards and is not among the stale ones
cancelAnimationFrame(stale, pending, captured) == stale

\* if (handsRef.current) handsRef.current.close(), and the tracks of the
\* camera stream are stopped: the cleanup of every effect run (V3)
CloseHands(hands) == IF hands = "open" THEN "closed" ELSE hands

startGame ==
  /\ gameState \in {MENU, GAME_OVER}
  /\ score' = 0
  /\ gameState' = PLAYING
  /\ rafScheduled' = TRUE
  /\ staleLoops' = cancelAnimationFrame(staleLoops,
                                        rafScheduled /\ variant # V2, gameState)
  /\ handsRef' = CloseHands(handsRef)
  /\ timers' = TimersAfterCleanup(timers)
  /\ UNCHANGED <<variant, scoreRef, isTriggeredRef, lastShotTimeRef,
                 latestLandmarksRef, targetsRef, nextId, tick, hist,
                 estimator, floatingTexts>>

endGame(finalScore) ==
  /\ gameState = PLAYING
  /\ score' = finalScore
  /\ gameState' = GAME_OVER
  /\ rafScheduled' = TRUE
  /\ staleLoops' = cancelAnimationFrame(staleLoops,
                                        rafScheduled /\ variant # V2, gameState)
  /\ handsRef' = CloseHands(handsRef)
  /\ timers' = TimersAfterCleanup(timers)
  /\ UNCHANGED <<variant, scoreRef, isTriggeredRef, lastShotTimeRef,
                 latestLandmarksRef, targetsRef, nextId, tick, hist,
                 estimator, floatingTexts>>

\* (the ARGame effect depends on gameState: its cleanup cancels the pending
\* frame and the new run requests one, so a change of gameState leaves
\* requestAnimationFrame(loop) pending)

\* the injected game-over signal: the holder of onGameOver calls it
GameOverSignal == endGame(scoreRef)

-----------------------------------------------------------------------------
(* ARGame, V1: src/unnamed/part_001 *)

\* a frame that ends the session (variation used to test C26)
SessionAfterFrame_gameOver(state) ==
  IF state = PLAYING THEN GAME_OVER ELSE state

\* ARGame receives onGameOver and no statement of any variant calls it: a
\* frame leaves the session state as it found it
SessionAfterFrame(state) == state

\* the loops that hold a frame request: 0 is the loop of the current effect
\* run, k >= 1 the k-th loop left over from an earlier run
PendingLoops == (IF rafScheduled THEN {0} ELSE {}) \cup (1..Len(staleLoops))

\* the gameState in the closure of loop k
Captured(k) == IF k = 0 THEN gameState ELSE staleLoops[k]

\* one run of loop k: the frame, then requestAnimationFrame(loop) unless the
\* frame threw
LoopFrame(b, v, k) ==
  /\ \E d \in b.tickMs, dt \in DtSet :
       IF Captured(k) = PLAYING
       THEN Playing(b, v, latestLandmarksRef, d, dt)
       ELSE Paused(b, d)
  /\ IF k = 0
     THEN /\ rafScheduled' = ~tick'.threw
          /\ staleLoops' = staleLoops
     ELSE /\ rafScheduled' = rafScheduled
          /\ staleLoops' = IF tick'.threw
                           THEN [i \in 1..(Len(staleLoops) - 1) |->
                                   staleLoops[IF i < k THEN i ELSE i + 1]]
                           ELSE staleLoops

loop_part001(b) ==
  /\ variant = V1
  /\ \E k \in PendingLoops : LoopFrame(b, V1, k)
  /\ gameState' = SessionAfterFrame(gameState)
  /\ UNCHANGED <<variant, latestLandmarksRef, estimator, handsRef>>

onResults_part001(b) ==
  /\ variant = V1
  /\ \E results \in b.results : latestLandmarksRef' = results
  /\ UNCHANGED <<variant, gameState, score, scoreRef, isTriggeredRef,
                 lastShotTimeRef, targetsRef, nextId, tick, hist,
                 rafScheduled, estimator, feedback, staleLoops, handsRef>>

(* ARGame, V2: src/components/ARGame.tsx, first component *)

onResults_ARGame(b) ==
  /\ variant = V2
  /\ \E results \in b.results, d \in b.tickMs, dt \in DtSet :
       IF gameState # PLAYING
       THEN Paused(b, d)
       ELSE Playing(b, V2, results, d, dt)
  /\ gameState' = SessionAfterFrame(gameState)
  /\ UNCHANGED <<variant, latestLandmarksRef, estimator, rafScheduled,
                 staleLoops, handsRef>>

(* ARGame, V3: src/components/ARGame.tsx, second component *)

\* a loop that sends whatever processingRef holds (variation used to test C17)
SendAllowed_always(processing) == TRUE

\* handsRef.current && !processingRef.current
SendAllowed(processing) == ~processing

\* 1. Video Update: when the video is ready and elapsed % 0.1 < 0.05 (sendNow),
\* the loop sets processingRef and issues hands.send
SendStep ==
  \E sendNow \in BOOLEAN :
    IF sendNow /\ handsRef # "null" /\ SendAllowed(processingRef)
       /\ sends < MaxSends
    THEN /\ processingRef' = TRUE
         /\ sends' = sends + 1
         /\ delivered' = delivered
    ELSE UNCHANGED estimator

loop_ARGame(b) ==
  /\ variant = V3
  /\ \E k \in PendingLoops :
       /\ SendStep
       /\ LoopFrame(b, V3, k)
  /\ gameState' = SessionAfterFrame(gameState)
  /\ UNCHANGED <<variant, latestLandmarksRef, handsRef>>

\* startSystem, on the first tap of the overlay shown while !initialized: the
\* estimator is created and stored in handsRef, the camera stream is opened
startSystem ==
  /\ variant = V3
  /\ handsRef = "null"
  /\ handsRef' = "open"
  /\ UNCHANGED <<variant, gameState, score, scoreRef, isTriggeredRef,
                 lastShotTimeRef, latestLandmarksRef, targetsRef, nextId,
                 tick, hist, rafScheduled, estimator, feedback, staleLoops>>

\* hands.onResults: the estimator answers a request that is in flight; a
\* closed estimator answers nothing
onResults_startSystem(b) ==
  /\ variant = V3
  /\ handsRef = "open"
  /\ sends > delivered
  /\ delivered' = delivered + 1
  /\ \E results \in b.results : latestLandmarksRef' = results
  /\ UNCHANGED <<variant, gameState, score, scoreRef, isTriggeredRef,
                 lastShotTimeRef, targetsRef, nextId, tick, hist,
                 rafScheduled, processingRef, sends, feedback, staleLoops,
                 handsRef>>

\* .then(() => { processingRef.current = false; }): an answered request settles
send_then ==
  /\ variant = V3
  /\ delivered >= 1
  /\ processingRef' = FALSE
  /\ sends' = sends - 1
  /\ delivered' = delivered - 1
  /\ UNCHANGED <<variant, gameState, score, scoreRef, isTriggeredRef,
                 lastShotTimeRef, latestLandmarksRef, targetsRef, nextId,
                 tick, hist, rafScheduled, feedback, staleLoops, handsRef>>

\* .catch(() => { processingRef.current = false; }): an unanswered request fails
send_catch ==
  /\ variant = V3
  /\ sends > delivered
  /\ processingRef' = FALSE
  /\ sends' = sends - 1
  /\ delivered' = delivered
  /\ UNCHANGED <<variant, gameState, score, scoreRef, isTriggeredRef,
                 lastShotTimeRef, latestLandmarksRef, targetsRef, nextId,
                 tick, hist, rafScheduled, feedback, staleLoops, handsRef>>

(* ARGame, all variants: the callback given to setTimeout by addFloatingText *)

\* setFloatingTexts(prev => prev.filter(ft => ft.id !== id))
FilterOut(list, id) == SelectSeq(list, LAMBDA ft : ft.id # id)

floatingTextTimeout ==
  /\ \E t \in timers :
       /\ t.age >= Expiry
       /\ floatingTexts' = FilterOut(floatingTexts, t.id)
       /\ timers' = timers \ {t}
  /\ UNCHANGED <<variant, gameState, score, scoreRef, isTriggeredRef,
                 lastShotTimeRef, latestLandmarksRef, targetsRef, nextId,
                 tick, hist, rafScheduled, estimator, staleLoops, handsRef>>

-----------------------------------------------------------------------------
(* Specifications *)

Init ==
  /\ variant \in Variants
  /\ gameState = MENU
  /\ score = 0
  /\ scoreRef = 0
  /\ isTriggeredRef = FALSE
  /\ lastShotTimeRef = -Horizon
  /\ latestLandmarksRef = NoHand
  /\ targetsRef = <<>>
  /\ nextId = 1
  /\ tick = IdleTick
  /\ hist = InitHist
  /\ rafScheduled = TRUE
  /\ processingRef = FALSE
  /\ sends = 0
  /\ delivered = 0
  /\ floatingTexts = <<>>
  /\ timers = {}
  /\ staleLoops = <<>>
  /\ handsRef = "null"

\* the program as wired (nothing calls onGameOver), explored for its
\* population, aim and score
Next ==
  \/ startGame
  \/ loop_part001(PopulationRun)
  \/ onResults_part001(PopulationRun)
  \/ onResults_ARGame(PopulationRun)
  \/ loop_ARGame(PopulationRun)
  \/ onResults_startSystem(PopulationRun)
  \/ startSystem
  \/ send_then
  \/ send_catch

Spec == Init /\ [][Next]_vars

\* the program as wired, explored for its gesture trigger
NextGesture ==
  \/ startGame
  \/ loop_part001(GestureRun)
  \/ onResults_part001(GestureRun)
  \/ onResults_ARGame(GestureRun)
  \/ loop_ARGame(GestureRun)
  \/ onResults_startSystem(GestureRun)
  \/ startSystem
  \/ send_then
  \/ send_catch

SpecGesture == Init /\ [][NextGesture]_vars

\* the program with an external holder of onGameOver raising the signal
NextSignal ==
  \/ startGame
  \/ GameOverSignal
  \/ loop_part001(SignalRun)
  \/ onResults_part001(SignalRun)
  \/ onResults_ARGame(SignalRun)
  \/ loop_ARGame(SignalRun)
  \/ onResults_startSystem(SignalRun)
  \/ startSystem
  \/ send_then
  \/ send_catch

SpecSignal == Init /\ [][NextSignal]_vars

\* the program with the game-over signal raised from outside, followed for
\* its floating texts
NextTexts ==
  \/ startGame
  \/ GameOverSignal
  \/ loop_part001(TextRun)
  \/ onResults_part001(TextRun)
  \/ onResults_ARGame(TextRun)
  \/ loop_ARGame(TextRun)
  \/ onResults_startSystem(TextRun)
  \/ startSystem
  \/ send_then
  \/ send_catch
  \/ floatingTextTimeout

SpecTexts == Init /\ [][NextTexts]_vars

\* the program as wired, with every direction the spawner of V3 can draw
NextReceding ==
  \/ startGame
  \/ loop_part001(RecedingRun)
  \/ onResults_part001(RecedingRun)
  \/ onResults_ARGame(RecedingRun)
  \/ loop_ARGame(RecedingRun)
  \/ onResults_startSystem(RecedingRun)
  \/ startSystem
  \/ send_then
  \/ send_catch

SpecReceding == Init /\ [][NextReceding]_vars

\* the program as wired, with an estimator that may deliver a short array
NextMalformed ==
  \/ startGame
  \/ loop_part001(MalformedRun)
  \/ onResults_part001(MalformedRun)
  \/ onResults_ARGame(MalformedRun)
  \/ loop_ARGame(MalformedRun)
  \/ onResults_startSystem(MalformedRun)
  \/ startSystem
  \/ send_then
  \/ send_catch

SpecMalformed == Init /\ [][NextMalformed]_vars

\* the program as wired, with the browser running every animation frame it
\* was asked for; nothing obliges the estimator to answer
SpecFair ==
  /\ Init /\ [][NextGesture]_vars
  /\ WF_vars(loop_part001(GestureRun))
  /\ WF_vars(loop_ARGame(GestureRun))

-----------------------------------------------------------------------------
(* Gesture trigger: C1 - C4 (checked under SpecGesture) *)

\* C1.  Edge trigger.  hist.engRun counts the consecutive Playing frames, hand
\* present and pinch engaged, since the last frame whose hand was present with
\* the pinch released; hist.runCool records whether the cooldown had elapsed
\* on the first of them, hist.runFires the fire events over them.  The first
\* frame of the run fires when the cooldown has elapsed, frames 2..N never
\* fire, and so a run of any length holds exactly one fire event.
C1_EdgeTrigger ==
  (tick.playing /\ hist.engRun >= 1) =>
    /\ (hist.engRun = 1 /\ hist.runCool) => tick.isShooting
    /\ hist.engRun >= 2 => ~tick.isShooting
    /\ hist.runCool => hist.runFires = 1
    /\ hist.runFires <= 1

\* a pinch held for RunCap or more frames after a release, cooldown elapsed
C1_HeldPinch ==
  /\ tick.playing
  /\ hist.engRun = RunCap
  /\ hist.runCool
  /\ hist.runFires = 1
  /\ ~tick.isShooting

\* C2.  Rate limiting.  tick.fireGap is the time since the previous accepted
\* fire event, tick.edge says the pinch became engaged on this frame (the last
\* frame with a hand had it released), tick.edgeGap is the time since the
\* previous such edge and tick.prevEdgeFired whether that edge fired.  Accepted
\* fire events are more than the cooldown apart; of two edges within one
\* cooldown window at most one fires; an edge more than the cooldown after the
\* previous edge fires.
C2_RateLimit ==
  tick.playing =>
    /\ tick.isShooting => tick.fireGap > Cooldown(variant)
    /\ (tick.edge /\ tick.edgeGap <= Cooldown(variant)) =>
         ~(tick.isShooting /\ tick.prevEdgeFired)
    /\ (tick.edge /\ tick.edgeGap > Cooldown(variant)) => tick.isShooting

\* the second of two pinch cycles inside one cooldown window is not accepted
C2_SecondCycleSuppressed ==
  /\ tick.playing
  /\ tick.edge
  /\ tick.edgeGap <= Cooldown(variant)
  /\ tick.prevEdgeFired
  /\ ~tick.isShooting

\* C3.  Hand reappearance.  tick.reappear says the hand is back with the pinch
\* engaged after NoHandTicks or more Playing frames without landmarks.  Such a
\* frame, with the cooldown elapsed, emits a fire event.
C3_ReappearFires ==
  (tick.playing /\ tick.reappear /\ tick.coolOK) => tick.isShooting

\* C4.  After a Playing frame without landmarks, isTriggeredRef is false.
C4_NoHandResetsPinching ==
  (tick.playing /\ ~tick.hand) => ~isTriggeredRef

-----------------------------------------------------------------------------
(* Aim resolver: C5, C6 (checked under Spec) *)

\* Squared distance from point to the half-line origin + t * direction, t >= 0,
\* by Pythagoras; unitDirection is 5 * (a unit vector), the result is over 625.
PointToRayDistSq(origin, unitDirection, point) ==
  LET w == VSub(point, origin)
      along5 == Dot(w, unitDirection)
  IN  IF along5 < 0 THEN 625 * Dot(w, w)
      ELSE 625 * Dot(w, w) - 25 * along5 * along5

\* C5.  Aim-assist selection.  On a frame with a hand, among the targets the
\* aim-assist walks, those whose squared distance to the aiming ray is below
\* the magnetism threshold are the candidates; the lock is a candidate of
\* minimum distance, and there is no lock exactly when there is no candidate.
C5_LockIsNearestCandidate ==
  (tick.playing /\ tick.hand) =>
    LET dist(i) == PointToRayDistSq(CameraPosition, tick.unitDirection,
                                    tick.scanned[i].position)
        candidates == {i \in 1..Len(tick.scanned) :
                         2 * dist(i) < 625 * MagnetismTwice(variant)}
    IN  IF candidates = {}
        THEN tick.closestTarget = NoTarget
        ELSE \E i \in candidates :
               /\ tick.scanned[i].id = tick.closestTarget
               /\ \A j \in candidates : dist(i) <= dist(j)

\* C6.  Aim-assist scenario.  A single target at (0,0,-20), the ray leaving
\* (0,0,10) along (0,0,-1): the aim-assist step computes squared distance 0
\* and locks the target.
C6_AxisTargetLocked ==
  ( /\ tick.playing /\ tick.hand
    /\ tick.ray.origin = <<0, 0, 10>>
    /\ tick.unitDirection = <<0, 0, -5>>
    /\ Len(tick.scanned) = 1
    /\ tick.scanned[1].position = <<0, 0, -20>> ) =>
    /\ tick.closestDist = 0
    /\ tick.closestTarget = tick.scanned[1].id

-----------------------------------------------------------------------------
(* Score and session: C7 (checked under Spec), C8 (under SpecSignal) *)

\* C7.  Score monotonicity.  Within a Playing session every step either is a
\* frame with a confirmed hit (a fire event with a lock), which raises
\* scoreRef by exactly 1 and reports the new value to App's score, or leaves
\* both scoreRef and App's score as they were.
C7_ScoreMonotonic ==
  [][ (gameState = PLAYING /\ gameState' = PLAYING) =>
        IF /\ tick' # tick
           /\ tick'.playing /\ tick'.isShooting
           /\ tick'.closestTarget # NoTarget
        THEN scoreRef' = scoreRef + 1 /\ score' = scoreRef'
        ELSE scoreRef' = scoreRef /\ score' = score ]_vars

\* the second hit of a session
C7_SecondHit ==
  /\ tick.playing /\ tick.isShooting /\ tick.closestTarget # NoTarget
  /\ tick.scoreBefore = 1
  /\ scoreRef = 2
  /\ score = 2

\* C8.  Starting a session leaves the displayed score at 0 and the target
\* population empty, and the first hit of a session (the hit that moves the
\* displayed score off 0) reports score 1.
C8_StartResets ==
  [][ /\ (gameState # PLAYING /\ gameState' = PLAYING) =>
           (score' = 0 /\ targetsRef' = <<>>)
      /\ (gameState = PLAYING /\ gameState' = PLAYING
            /\ score = 0 /\ score' # 0) => score' = 1 ]_vars

-----------------------------------------------------------------------------
(* Population: C9, C10 (checked under Spec) *)

\* identities of the targets spawnTarget created in the last frame
NewIds == (nextId - tick.spawned)..(nextId - 1)

\* identities retired by the timeout-miss rule in the last frame
MissedIds == {tick.missed[i] : i \in 1..Len(tick.missed)}

\* C9.  Lock invariant.  The lock of a frame is no target or one target, held
\* exactly once by the population as it stands after the update loop: a
\* target that was present before the frame or spawned in it, and not retired
\* by timeout-miss in it.  A hit removes that target and no other.
C9_LockIsAlive ==
  (tick.playing /\ tick.closestTarget # NoTarget) =>
    /\ Cardinality({i \in 1..Len(tick.scanned) :
                      tick.scanned[i].id = tick.closestTarget}) = 1
    /\ tick.closestTarget \in (tick.before \cup NewIds) \ MissedIds
    /\ tick.reported =>
         Ids(targetsRef) = Ids(tick.scanned) \ {tick.closestTarget}

\* a frame that retires one target by timeout-miss and hits another
C9_HitBesideMiss ==
  /\ tick.playing
  /\ tick.missed # <<>>
  /\ tick.reported
  /\ tick.closestTarget \in Ids(tick.scanned)

\* C10.  Population bound.  targetsRef never holds more than MaxTargets
\* targets; every spawnTarget call of a frame found fewer than MaxTargets
\* (the count before the frame plus the calls made stays within MaxTargets);
\* and the only targets a frame removes are the ones it retires by
\* timeout-miss and the one it hits.
C10_PopulationBound ==
  /\ Len(targetsRef) <= MaxTargets
  /\ tick.playing =>
       /\ tick.spawned > 0 => Cardinality(tick.before) < MaxTargets
       /\ Cardinality(tick.before) + tick.spawned <= MaxTargets
       /\ ((tick.before \cup NewIds) \ Ids(targetsRef)) \subseteq
            (MissedIds \cup
              (IF tick.reported THEN {tick.closestTarget} ELSE {}))

\* a frame entered at the cap: nothing spawned, nothing removed
C10_FrameAtCap ==
  /\ tick.playing
  /\ Cardinality(tick.before) = MaxTargets
  /\ tick.spawned = 0
  /\ tick.missed = <<>>
  /\ Len(targetsRef) = MaxTargets

-----------------------------------------------------------------------------
(* Retirement and adjudication: C11 - C14 (checked under Spec) *)

\* a step that runs one frame of the simulation
FrameStep == tick' # tick /\ tick'.playing

\* the pass-the-player depth: z > 8 in part_001, z > 5 in ARGame.tsx
PassDepth == IF variant = V1 THEN 8 ELSE 5

\* where target stands after being advanced by dt
AdvancedPosition(target, dt) ==
  VAdd(target.position, VScale(target.velocity, dt))

\* how many events of the list are the text of this type for this target
TextCount(texts, type, id) ==
  Cardinality({k \in 1..Len(texts) : texts[k] = [type |-> type, id |-> id]})

\* C11.  Timeout miss.  In every frame, each target whose advanced position
\* is beyond the pass-the-player depth is gone from the population at the end
\* of that frame and has exactly one miss text raised for it; miss texts are
\* raised for such targets only; and unless the same frame also holds a hit,
\* scoreRef and App's score are as before.
C11_TimeoutMiss ==
  [][ FrameStep =>
        /\ \A i \in 1..Len(targetsRef) :
             AdvancedPosition(targetsRef[i], tick'.dt)[3] > PassDepth =>
               /\ targetsRef[i].id \notin Ids(tick'.scanned)
               /\ targetsRef[i].id \notin Ids(targetsRef')
               /\ TextCount(tick'.missTexts, "miss", targetsRef[i].id) = 1
               /\ TextCount(tick'.shotTexts, "hit", targetsRef[i].id) = 0
        /\ \A k \in 1..Len(tick'.missTexts) :
             \E i \in 1..Len(targetsRef) :
               /\ tick'.missTexts[k] = [type |-> "miss", id |-> targetsRef[i].id]
               /\ AdvancedPosition(targetsRef[i], tick'.dt)[3] > PassDepth
        /\ \A i \in 1..Len(targetsRef') : targetsRef'[i].position[3] <= PassDepth
        /\ tick'.shotTexts = <<>> => (scoreRef' = scoreRef /\ score' = score) ]_vars

\* a frame that retires a target, hits nothing, and leaves a score of 1 or more
C11_MissKeepsScore ==
  /\ tick.playing
  /\ tick.missed # <<>>
  /\ Len(tick.missTexts) = Len(tick.missed)
  /\ ~tick.reported
  /\ scoreRef >= 1
  /\ scoreRef = tick.scoreBefore

\* C12.  Hit adjudication.  After a frame with a fire event and a lock, the
\* population is the post-update population without the locked target, in
\* the same order and with nothing else removed; scoreRef is one more than
\* before and is App's score; the frame raised exactly one hit text, for the
\* locked target, and exactly one shot sound.
C12_HitAdjudication ==
  (tick.playing /\ tick.isShooting /\ tick.closestTarget # NoTarget) =>
    /\ tick.closestTarget \in Ids(tick.scanned)
    /\ targetsRef =
         SelectSeq(tick.scanned, LAMBDA t : t.id # tick.closestTarget)
    /\ Len(targetsRef) = Len(tick.scanned) - 1
    /\ scoreRef = tick.scoreBefore + 1
    /\ score = scoreRef
    /\ tick.shotTexts = <<[type |-> "hit", id |-> tick.closestTarget]>>
    /\ Cardinality({k \in 1..Len(tick.sounds) : tick.sounds[k] = "shoot"}) = 1

\* a hit among other targets that stay
C12_HitAmongOthers ==
  /\ tick.playing /\ tick.isShooting /\ tick.closestTarget # NoTarget
  /\ Len(tick.scanned) >= 3
  /\ Len(targetsRef) = Len(tick.scanned) - 1

\* C13.  Fire without lock.  After a frame with a fire event and no lock the
\* only feedback of the adjudicator is the shot sound: no text is raised by
\* it (the frame's texts are those of its retirements), the population is the
\* post-update population, scoreRef and App's score are as before.
C13_FireWithoutLock ==
  (tick.playing /\ tick.isShooting /\ tick.closestTarget = NoTarget) =>
    /\ tick.sounds = <<"shoot">>
    /\ tick.shotTexts = <<>>
    /\ Len(tick.missTexts) = Len(tick.missed)
    /\ targetsRef = tick.scanned
    /\ ~tick.reported
    /\ scoreRef = tick.scoreBefore
    /\ score = scoreRef

\* a fire event on an empty population
C13_FireOnEmptyPopulation ==
  /\ tick.playing /\ tick.isShooting
  /\ tick.closestTarget = NoTarget
  /\ tick.before = {}
  /\ tick.scanned = <<>>
  /\ tick.sounds = <<"shoot">>

\* C14.  Removal during iteration.  In every frame each target of the
\* population is either retired (beyond the depth once advanced) or found
\* exactly once in the post-update population, advanced exactly once; the
\* post-update population holds no identity twice; no target is reported
\* missed twice or both retired and hit; and every identity the frame advances, locks, hits or reports is
\* one the population held before the frame or one created in it, so a
\* target removed earlier never comes back.
C14_RemovalDuringIteration ==
  [][ FrameStep =>
        /\ \A i \in 1..Len(targetsRef) :
             IF AdvancedPosition(targetsRef[i], tick'.dt)[3] > PassDepth
             THEN targetsRef[i].id \notin Ids(tick'.scanned)
             ELSE Cardinality({j \in 1..Len(tick'.scanned) :
                    tick'.scanned[j] =
                      [targetsRef[i] EXCEPT
                         !.position = AdvancedPosition(targetsRef[i], tick'.dt)]})
                  = 1
        /\ Cardinality(Ids(tick'.scanned)) = Len(tick'.scanned)
        /\ Ids(targetsRef') \subseteq Ids(tick'.scanned)
        /\ \A k, h \in 1..Len(tick'.missTexts) :
             tick'.missTexts[k].id = tick'.missTexts[h].id => k = h
        /\ \A k \in 1..Len(tick'.missTexts), h \in 1..Len(tick'.shotTexts) :
             tick'.missTexts[k].id # tick'.shotTexts[h].id
        /\ \A id \in Ids(tick'.scanned)
                     \cup {tick'.missTexts[k].id : k \in 1..Len(tick'.missTexts)}
                     \cup {tick'.shotTexts[k].id : k \in 1..Len(tick'.shotTexts)}
                     \cup ({tick'.closestTarget} \ {NoTarget}) :
             id \in Ids(targetsRef) \/ (id >= nextId /\ id < nextId') ]_vars

\* a frame whose reverse scan splices a target out from under survivors
C14_SpliceWithSurvivors ==
  /\ tick.playing
  /\ tick.missed # <<>>
  /\ Len(tick.scanned) >= 2
  /\ \A k \in 1..Len(tick.missed) :
       \A j \in 1..Len(tick.scanned) : tick.missed[k] < tick.scanned[j].id

-----------------------------------------------------------------------------
(* Session states: C15 (checked under SpecSignal) *)

\* C15.  Paused outside Playing.  Every step taken while gameState is MENU or
\* GAME_OVER (a frame of the loop or an estimator callback) leaves the
\* population, the spawner, scoreRef, App's score and isTriggeredRef as they
\* were; lastShotTimeRef keeps its value (on the sliding clock it only ages by
\* the frame's duration); a frame produces no fire event, sound or floating
\* text.  In MENU the population is empty.
C15_PausedOutsidePlaying ==
  [][ /\ (gameState # PLAYING /\ gameState' = gameState) =>
           /\ targetsRef' = targetsRef
           /\ nextId' = nextId
           /\ scoreRef' = scoreRef
           /\ score' = score
           /\ isTriggeredRef' = isTriggeredRef
           /\ lastShotTimeRef' \in
                {lastShotTimeRef} \cup {Slide(lastShotTimeRef, d) : d \in TickMs}
           /\ tick' # tick =>
                /\ ~tick'.playing /\ ~tick'.isShooting /\ ~tick'.reported
                /\ tick'.sounds = <<>>
                /\ tick'.missTexts = <<>> /\ tick'.shotTexts = <<>>
                /\ tick'.spawned = 0 /\ tick'.missed = <<>>
      /\ gameState = MENU => (targetsRef = <<>> /\ score = 0) ]_vars

\* a frame run in GAME_OVER with targets alive, the pinch latched and a final
\* score on display
C15_PausedFrameInGameOver ==
  /\ gameState = GAME_OVER
  /\ tick = IdleTick
  /\ targetsRef # <<>>
  /\ isTriggeredRef
  /\ score >= 1
  /\ score = scoreRef

-----------------------------------------------------------------------------
(* Order of a frame's steps: C18 *)

\* C18: inside one frame the steps run in the order advance/retire, aim,
\* trigger, adjudicator. The ray is cast from the landmarks this frame read,
\* the lock is the aim assist's answer over the population the update left
\* (spawned and advanced this frame, retired targets gone), the fire event
\* is the trigger's answer on the same landmarks, and the adjudicator scores
\* exactly when that fire event meets that lock, removing that target.
C18_OrderWithinFrame ==
  tick.playing =>
    /\ tick.hand = tick.landmarks.present
    /\ \A k \in 1..Len(tick.missed) :
         tick.missed[k] \notin Ids(tick.scanned)
    /\ tick.hand =>
         /\ tick.ray =
              RayAtScan(variant, setFromCamera(Ndc(variant, tick.landmarks.indexTip)))
         /\ tick.closestTarget =
              AimAssist(variant, tick.ray, tick.scanned).closestTarget
         /\ tick.isShooting =
              (Engaged(variant, tick.landmarks) /\ ~tick.wasTriggered /\ tick.coolOK)
    /\ ~tick.hand => tick.closestTarget = NoTarget /\ ~tick.isShooting
    /\ tick.reported = (tick.isShooting /\ tick.closestTarget # NoTarget)
    /\ tick.reported =>
         /\ tick.shotTexts = <<[type |-> "hit", id |-> tick.closestTarget]>>
         /\ tick.closestTarget \notin Ids(targetsRef)
         /\ scoreRef = tick.scoreBefore + 1
    /\ Ids(targetsRef) =
         Ids(tick.scanned) \
           (IF tick.reported THEN {tick.closestTarget} ELSE {})

\* a target spawned in a frame is locked and hit in that same frame
C18_HitOnFreshTarget ==
  /\ tick.playing /\ tick.reported
  /\ tick.closestTarget \notin tick.before
  /\ tick.spawned >= 1

-----------------------------------------------------------------------------
(* Inference requests: C17 *)

-----------------------------------------------------------------------------
(* Simulation and estimator: C16 *)

\* C16: the simulation tick never waits on the estimator: once the session is
\* Playing, a frame that spawns, advances and retires targets follows,
\* whether or not an estimator result ever arrives.
C16_TickNeverWaits == (gameState = PLAYING) ~> tick.playing

-----------------------------------------------------------------------------
(* Error handling: C19, C20 *)

\* C19: malformed landmark input.  A frame whose landmark array lacks the
\* points it reads is handled exactly like a frame without a hand: nothing
\* is thrown, there is no lock and no fire event, and the aim visuals are
\* hidden.
C19_MalformedAsAbsent ==
  tick.playing /\ tick.landmarks = Malformed =>
    /\ ~tick.threw
    /\ tick.closestTarget = NoTarget
    /\ ~tick.isShooting
    /\ tick.reticle = "hidden"

\* C20: no tick is fatal.  After any frame of the loop (V1, V3), whatever
\* its input, requestAnimationFrame(loop) has been reached and the next
\* frame is pending.
C20_NextTickScheduled == variant \in {V1, V3} => rafScheduled

-----------------------------------------------------------------------------
(* Floating texts: C21 *)

TextIds(list) == {list[i].id : i \in 1..Len(list)}

TimerIds(pending) == {t.id : t \in pending}

\* C21: floating-text expiry.  Every entry of the list has exactly one pending
\* timer and every pending timer has its entry, in every session state; an
\* entry leaves the list only in the step in which its own timer fires, not
\* before 800 ms have passed since it was added, and its timer is gone with
\* it, so it is removed once; a change of session state removes neither.
C21_FloatingTextExpiry ==
  [][/\ TextIds(floatingTexts') = TimerIds(timers')
     /\ Cardinality(timers') = Len(floatingTexts')
     /\ \A id \in TextIds(floatingTexts) \ TextIds(floatingTexts') :
          /\ \E t \in timers : t.id = id /\ t.age >= Expiry
          /\ id \notin TimerIds(timers')
          /\ Len(floatingTexts') = Len(floatingTexts) - 1
     /\ gameState' # gameState => floatingTexts' = floatingTexts]_vars

\* the session is over and the timer of an entry still on screen is due
C21_DueAfterGameOver ==
  /\ gameState = GAME_OVER
  /\ \E t \in timers : t.age >= Expiry /\ t.id \in TextIds(floatingTexts)

-----------------------------------------------------------------------------
(* Animation loops: C22 *)

\* C22: no two ticks run concurrently (V1, V3).  At most one loop holds a
\* frame request, and it is the loop of the current effect run: a loop of an
\* earlier run holds none after its cleanup, so it never runs a frame again;
\* after every change of gameState exactly one loop is active.
C22_SingleLoop ==
  [][(variant # V2) =>
       (PendingLoops' \subseteq {0}
        /\ (gameState' # gameState => PendingLoops' = {0}))]_vars

\* a playing frame of a second session, run by the only loop
C22_FrameAfterRestart ==
  /\ variant = V1
  /\ gameState = PLAYING /\ tick.playing
  /\ score < scoreRef
  /\ PendingLoops = {0}

-----------------------------------------------------------------------------
(* Spawn policy: C23 *)

\* C23: spawn policy.  A playing frame spawns at most one target: a spawn is
\* a per-frame chance and the population is not refilled to the cap within
\* one frame.
C23_SpawnPolicy == tick.playing => tick.spawned <= 1

-----------------------------------------------------------------------------
(* Aim mapping: C24 *)

\* the mirrored mapping: ndcX = (1 - x)*2 - 1, ndcY = -(2y - 1), in thousandths
MirroredNdc(indexTip) ==
  <<(1000 - indexTip[1]) * 2 - 1000, -(2 * indexTip[2] - 1000)>>

\* C24: mirrored aim mapping.  In every variant the ray of a playing frame
\* with a hand leaves the camera through the mirrored image of the index
\* fingertip: x = 0 maps to ndcX = +1 and x = 1 to ndcX = -1.
C24_MirroredAim ==
  tick.playing /\ tick.hand =>
    /\ Ndc(variant, tick.landmarks.indexTip) = MirroredNdc(tick.landmarks.indexTip)
    /\ tick.unitDirection =
         setFromCamera(MirroredNdc(tick.landmarks.indexTip)).direction

-----------------------------------------------------------------------------
(* Retirement: C25 *)

\* C25: every target is eventually retired.  Every target moves toward the
\* player (velocity z > 0), so the population is never filled to the cap
\* with targets that will not cross the miss depth.
C25_EveryTargetRetires ==
  ~(/\ Len(targetsRef) = MaxTargets
    /\ \A i \in 1..Len(targetsRef) :
         /\ targetsRef[i].velocity[3] <= 0
         /\ targetsRef[i].position[3] <= MissDepth(variant))

-----------------------------------------------------------------------------
(* Session states as wired: C26 *)

\* C26: GAME_OVER is never entered.  With the program as wired (nothing
\* calls onGameOver) the session state is MENU or PLAYING, and once it is
\* PLAYING it stays PLAYING.
C26_GameOverNeverEntered ==
  [][/\ gameState' \in {MENU, PLAYING}
     /\ gameState = PLAYING => gameState' = PLAYING]_vars

\* a session in which targets were hit and missed, still Playing
C26_PlayingAfterHitAndMiss ==
  /\ gameState = PLAYING
  /\ scoreRef >= 1
  /\ tick.playing /\ Len(tick.missed) >= 1

-----------------------------------------------------------------------------
(* Suppressed pinch edges: C27 *)

\* C27: a pinch edge suppressed by the cooldown is consumed.  A frame that
\* finds the pinch engaged, the trigger not latched and the cooldown not
\* elapsed emits no fire event, latches the trigger and leaves lastShotTime
\* as it was (it only ages); and while a pinch that began inside the cooldown
\* is held, no frame fires, however long it is held.
C27_SuppressedEdgeConsumed ==
  [][FrameStep =>
       /\ (tick'.engaged /\ ~isTriggeredRef /\ ~tick'.coolOK) =>
            /\ ~tick'.isShooting
            /\ isTriggeredRef'
            /\ \E d \in TickMs : lastShotTimeRef' = Slide(lastShotTimeRef, d)
       /\ (hist'.engRun >= 1 /\ ~hist'.runCool) =>
            /\ ~tick'.isShooting
            /\ hist'.runFires = 0
            /\ isTriggeredRef']_vars

\* a pinch that began inside the cooldown is still held after the cooldown
\* has elapsed, and does not fire
C27_HeldPastCooldown ==
  /\ tick.playing /\ tick.engaged
  /\ hist.engRun >= 2 /\ ~hist.runCool
  /\ tick.coolOK
  /\ ~tick.isShooting /\ hist.runFires = 0

-----------------------------------------------------------------------------
(* One exit per target: C28 *)

\* the id hit by the frame just run, if any
HitIds == IF tick.reported THEN {tick.closestTarget} ELSE {}

\* C28: each target leaves the population once and for one reason.  In every
\* playing frame the targets that leave are exactly the ones retired by
\* timeout-miss and the one hit, no target is both; a retired target is not
\* the lock; at most one target is hit and scoreRef rises by at most 1.  A
\* target that has left cannot come back or be reported later: identities
\* in the population are below nextId and only identities from nextId on
\* enter it, and every identity a frame retires, locks or hits was in the
\* population before the frame or was spawned by it.
C28_OneExitPerTarget ==
  [][FrameStep =>
       /\ MissedIds' \cap HitIds' = {}
       /\ tick'.closestTarget \notin MissedIds'
       /\ Cardinality(MissedIds') = Len(tick'.missed)
       /\ (Ids(targetsRef) \cup NewIds') \ Ids(targetsRef') =
            MissedIds' \cup HitIds'
       /\ Ids(targetsRef') \subseteq Ids(targetsRef) \cup NewIds'
       /\ \A id \in Ids(targetsRef) : id < nextId
       /\ \A id \in NewIds' : id >= nextId
       /\ MissedIds' \cup HitIds' \cup ({tick'.closestTarget} \ {NoTarget})
            \subseteq Ids(targetsRef) \cup NewIds'
       /\ Len(tick'.shotTexts) <= 1
       /\ Len(tick'.scanned) - Len(targetsRef') \in {0, 1}
       /\ scoreRef' - scoreRef \in {0, 1}
       /\ scoreRef' - scoreRef = Cardinality(HitIds')]_vars

\* a frame in which one target was retired and another one hit, with a third
\* staying
C28_MissAndHitInOneFrame ==
  /\ tick.playing
  /\ Len(tick.missed) >= 1
  /\ tick.reported
  /\ Len(targetsRef) >= 1

-----------------------------------------------------------------------------
(* Aim-assist ties: C29 *)

\* the positions in the walked population whose squared distance to the
\* aiming ray is the minimum and below the magnetism threshold
NearestCandidates ==
  LET dist(i) == PointToRayDistSq(CameraPosition, tick.unitDirection,
                                  tick.scanned[i].position)
      candidates == {i \in 1..Len(tick.scanned) :
                       2 * dist(i) < 625 * MagnetismTwice(variant)}
  IN  {i \in candidates : \A j \in candidates : dist(i) <= dist(j)}

\* C29: aim-assist tie-break.  On a frame with a hand, when two or more
\* targets are at exactly the same squared distance to the ray and it is the
\* minimum below the threshold, the lock is the one that comes first in
\* targetsRef order.
C29_TieBreakFirst ==
  (tick.playing /\ tick.hand /\ Cardinality(NearestCandidates) >= 2) =>
    tick.closestTarget =
      tick.scanned[CHOOSE i \in NearestCandidates :
                     \A j \in NearestCandidates : i <= j].id

-----------------------------------------------------------------------------
(* Estimator lifetime: C30 *)

\* C30: the estimator survives session changes (V3).  Once startSystem has
\* created it, the estimator held in handsRef stays open through every later
\* change of gameState.
C30_EstimatorSurvives == handsRef \in {"null", "open"}
====
